---- MODULE Spec2Model ----
(***************************************************************************)
(* Model of app.py (investment thesis formatter): the company-name         *)
(* heuristic, the section parser, the bullet extractor with its fallback   *)
(* cascade, the visualization renderer and the Streamlit session script.   *)
(*                                                                         *)
(* A Python str is a sequence of one-character strings.  The character     *)
(* "ß" stands for a lowercase letter whose upper-casing is two characters. *)
(***************************************************************************)
EXTENDS Integers, Sequences, FiniteSets, TLC

VARIABLES
    name_pc, raw_text, company_label,       \* extract_company_name: call state, argument, result
    parse_pc, formatted_text, sections,     \* parse_thesis_sections: call state, argument, result
    bullet_pc, title, content, completion,  \* create_bullet_points: call state, arguments, completion outcome
    bullets,                                \* create_bullet_points: result
    render_pc, viz_sections, company_name,  \* create_space_visualization_html: position, arguments
    processed_sections, html_content,       \* its processed_sections and the document it returns
    panels,                                 \* the panels createThesisLayout has added to the page
    run_pc,                                 \* main: where the script run of the session stands
    current_text, just_formatted,           \* st.session_state.current_text, .just_formatted
    ss_company_name,                        \* st.session_state.company_name (None while unset)
    thesis_text,                            \* the value of the text area in the current run
    format_enabled, viz_enabled,            \* the two buttons as the page last rendered them
    messages,                               \* st.error / st.success / st.info shown by the current run
    modal,                                  \* the #content-modal element of the loaded document
    dom_event                               \* the event the document handled last

nameVars == <<name_pc, raw_text, company_label>>
parseVars == <<parse_pc, formatted_text, sections>>
bulletVars == <<bullet_pc, title, content, completion, bullets>>
renderVars == <<render_pc, viz_sections, company_name, processed_sections, html_content, panels>>
sessionVars ==
    <<run_pc, current_text, just_formatted, ss_company_name, thesis_text,
      format_enabled, viz_enabled, messages>>
overlayVars == <<modal, dom_event>>
vars == <<nameVars, parseVars, bulletVars, renderVars, sessionVars, overlayVars>>

NameIdle == name_pc = "idle" /\ raw_text = <<>> /\ company_label = <<>>
ParseIdle == parse_pc = "idle" /\ formatted_text = <<>> /\ sections = <<>>
BulletIdle ==
    /\ bullet_pc = "idle" /\ title = <<>> /\ content = <<>>
    /\ completion = <<"none">> /\ bullets = <<>>
SessionIdle ==
    /\ run_pc = "off" /\ current_text = <<>> /\ just_formatted = FALSE
    /\ ss_company_name = <<"None">> /\ thesis_text = <<>>
    /\ format_enabled = FALSE /\ viz_enabled = FALSE /\ messages = {}
RenderIdle ==
    /\ render_pc = "idle" /\ viz_sections = <<>> /\ company_name = <<>>
    /\ processed_sections = <<>> /\ html_content = <<>> /\ panels = <<>>

\* the overlay as the markup has it: not active, empty title, empty list
ModalMarkup == [active |-> FALSE, title |-> <<>>, bullets |-> <<>>]
NoEvent == [type |-> "none", target |-> "", key |-> "", index |-> 0]
OverlayIdle == modal = ModalMarkup /\ dom_event = NoEvent

(***************************************************************************)
(* Python str primitives                                                   *)
(***************************************************************************)
LowerSeq == <<"a", "b", "c", "d", "e", "f", "g", "h", "i", "j", "k", "l", "m",
              "n", "o", "p", "q", "r", "s", "t", "u", "v", "w", "x", "y", "z">>
UpperSeq == <<"A", "B", "C", "D", "E", "F", "G", "H", "I", "J", "K", "L", "M",
              "N", "O", "P", "Q", "R", "S", "T", "U", "V", "W", "X", "Y", "Z">>

Range(f) == {f[i] : i \in DOMAIN f}

SetMin(P) == CHOOSE i \in P : \A j \in P : i <= j

\* the k-th smallest element of a finite set of integers
Nth(P, k) == CHOOSE i \in P : Cardinality({j \in P : j < i}) = k - 1

LetterIndex(c, alphabet) == CHOOSE i \in 1..Len(alphabet) : alphabet[i] = c

IsUpperChar(c) == c \in Range(UpperSeq)
IsLowerChar(c) == c \in Range(LowerSeq) \cup {"ß"}

Whitespace == {" ", "\n", "\t"}

\* str.upper() of one character: "ß".upper() == "SS"
UpperChar(c) ==
    IF c = "ß" THEN <<"S", "S">>
    ELSE IF c \in Range(LowerSeq) THEN <<UpperSeq[LetterIndex(c, LowerSeq)]>>
    ELSE <<c>>

\* str.lower() of one character
LowerChar(c) ==
    IF IsUpperChar(c) THEN LowerSeq[LetterIndex(c, UpperSeq)] ELSE c

RECURSIVE Flatten(_)
\* ''.join(parts)
Flatten(parts) ==
    IF Len(parts) = 0 THEN <<>>
    ELSE IF Len(parts) = 1 THEN parts[1]
    ELSE LET half == Len(parts) \div 2
         IN  Flatten(SubSeq(parts, 1, half)) \o Flatten(SubSeq(parts, half + 1, Len(parts)))

\* s.upper()
upper(s) == Flatten([i \in 1..Len(s) |-> UpperChar(s[i])])

\* s.lower()
lower(s) == [i \in 1..Len(s) |-> LowerChar(s[i])]

\* s.isupper(): at least one cased character and no lowercase one
isupper(s) ==
    /\ \E i \in 1..Len(s) : IsUpperChar(s[i])
    /\ \A i \in 1..Len(s) : ~IsLowerChar(s[i])

\* s.strip()
strip(s) ==
    LET n     == Len(s)
        first == CHOOSE i \in 1..n :
                    s[i] \notin Whitespace /\ \A j \in 1..(i - 1) : s[j] \in Whitespace
        last  == CHOOSE i \in 1..n :
                    s[i] \notin Whitespace /\ \A j \in (i + 1)..n : s[j] \in Whitespace
    IN  IF \A i \in 1..n : s[i] \in Whitespace THEN <<>> ELSE SubSeq(s, first, last)

\* s.split(sep) for a one-character separator
split(s, sep) ==
    LET P == {i \in 1..Len(s) : s[i] = sep}
        n == Cardinality(P)
        cut(k) == IF k = 0 THEN 0 ELSE IF k = n + 1 THEN Len(s) + 1 ELSE Nth(P, k)
    IN  [k \in 1..(n + 1) |-> SubSeq(s, cut(k - 1) + 1, cut(k) - 1)]

\* s.split(): the whitespace-separated tokens
split_ws(s) ==
    LET first == {i \in 1..Len(s) :
                    s[i] \notin Whitespace /\ (i = 1 \/ s[i - 1] \in Whitespace)}
        last  == {i \in 1..Len(s) :
                    s[i] \notin Whitespace /\ (i = Len(s) \/ s[i + 1] \in Whitespace)}
    IN  [k \in 1..Cardinality(first) |-> SubSeq(s, Nth(first, k), Nth(last, k))]

\* sub in s
contains(s, sub) ==
    \E i \in 0..(Len(s) - Len(sub)) : SubSeq(s, i + 1, i + Len(sub)) = sub

\* s.endswith(c), s.startswith(c) for one character
endswith(s, c) == Len(s) > 0 /\ s[Len(s)] = c
startswith(s, c) == Len(s) > 0 /\ s[1] = c

\* sep.join(parts)
join(sep, parts) ==
    Flatten([i \in 1..Len(parts) |-> IF i = 1 THEN parts[i] ELSE sep \o parts[i]])

(***************************************************************************)
(* extract_company_name                                                    *)
(***************************************************************************)
DEFAULT_LABEL == <<"I", "N", "V", "E", "S", "T", "M", "E", "N", "T">>

section_headers ==
    { <<"e", "x", "e", "c", "u", "t", "i", "v", "e", " ", "s", "u", "m", "m", "a", "r", "y">>,
      <<"b", "a", "c", "k", "g", "r", "o", "u", "n", "d">>,
      <<"t", "h", "e", "s", "i", "s">>,
      <<"a", "n", "a", "l", "y", "s", "i", "s">> }

excluded ==
    { <<"T", "H", "E">>, <<"A", "N", "D">>, <<"F", "O", "R">>,
      <<"I", "N", "C">>, <<"C", "O", "R", "P">>, <<"L", "L", "C">> }

MaxCompanyLen == 15
MinWordLen == 2
MaxWordLen == 8
WordsChecked == 3

\* first_line of extract_company_name
first_line_of(text) == strip(split(strip(text), "\n")[1])

\* the "CompanyName:" pattern: the label it yields, or <<"none">> when it yields none
colon_rule(first_line) ==
    LET company_part == strip(split(first_line, ":")[1])
    IN  IF /\ contains(first_line, <<":">>)
           /\ lower(company_part) \notin section_headers
           /\ Len(company_part) <= MaxCompanyLen
        THEN <<"label", upper(company_part)>>
        ELSE <<"none">>

\* the all-caps word scan over words[:3]
caps_rule(first_line) ==
    LET words == split_ws(first_line)
        n     == IF Len(words) < WordsChecked THEN Len(words) ELSE WordsChecked
        hits  == {k \in 1..n :
                    /\ isupper(words[k])
                    /\ Len(words[k]) >= MinWordLen
                    /\ Len(words[k]) <= MaxWordLen
                    /\ words[k] \notin excluded}
    IN  IF hits # {} THEN <<"label", words[SetMin(hits)]>> ELSE <<"none">>

\* faulty variant: the all-caps scan runs before the colon pattern
extract_company_name_caps_first(text) ==
    LET first_line == first_line_of(text)
    IN  IF caps_rule(first_line)[1] = "label" THEN caps_rule(first_line)[2]
        ELSE IF colon_rule(first_line)[1] = "label" THEN colon_rule(first_line)[2]
        ELSE DEFAULT_LABEL

extract_company_name(text) ==
    LET first_line == first_line_of(text)
    IN  IF colon_rule(first_line)[1] = "label" THEN colon_rule(first_line)[2]
        ELSE IF caps_rule(first_line)[1] = "label" THEN caps_rule(first_line)[2]
        ELSE DEFAULT_LABEL

(***************************************************************************)
(* Inputs of extract_company_name                                          *)
(***************************************************************************)
MaxPieces == 3

NamePieces ==
    { <<":">>, <<" ">>, <<"\n">>, <<"A">>, <<"b">>, <<"ß">>, <<"T", "H", "E">>,
      <<"E", "x", "e", "c", "u", "t", "i", "v", "e", " ", "S", "u", "m", "m", "a", "r", "y">> }

NamePrefixes ==
    { <<>>,
      <<"A", "C", "M", "E">>,
      <<"A", "B", "C", "D", "E", "F", "G">>,
      <<"A", "B", "C", "D", "E", "F", "G", "H", "I", "J", "K", "L", "M", "N">> }

Texts(pieces, n) ==
    {Flatten(p) : p \in UNION {[1..k -> pieces] : k \in 0..n}}

NameInputs == {p \o t : p \in NamePrefixes, t \in Texts(NamePieces, MaxPieces)}

NameInit ==
    /\ name_pc = "call"
    /\ raw_text \in NameInputs
    /\ company_label = <<>>
    /\ ParseIdle /\ BulletIdle /\ RenderIdle /\ SessionIdle
    /\ OverlayIdle

ExtractCompanyName ==
    /\ name_pc = "call"
    /\ company_label' = extract_company_name(raw_text)
    /\ name_pc' = "returned"
    /\ UNCHANGED <<raw_text, parseVars, bulletVars, renderVars, sessionVars>>
    /\ UNCHANGED overlayVars

NameNext == ExtractCompanyName

SpecName == NameInit /\ [][NameNext]_vars

(***************************************************************************)
(* Claims about extract_company_name                                       *)
(***************************************************************************)
\* the first line of the text that is not blank, trimmed (<<>> when there is none)
FirstNonEmptyLine(text) ==
    LET lines == split(text, "\n")
        full  == {k \in 1..Len(lines) : strip(lines[k]) # <<>>}
    IN  IF full = {} THEN <<>> ELSE strip(lines[SetMin(full)])

HasColon(line) == \E i \in 1..Len(line) : line[i] = ":"

\* the trimmed text before the first colon of a line that has one
BeforeFirstColon(line) ==
    LET c == SetMin({i \in 1..Len(line) : line[i] = ":"})
    IN  strip(SubSeq(line, 1, c - 1))

IsCapsToken(w) ==
    /\ isupper(w)
    /\ Len(w) \in 2..8
    /\ w \notin excluded

\* the label the three rules give, in their stated precedence
PrecedenceLabel(text) ==
    LET line   == FirstNonEmptyLine(text)
        tokens == split_ws(line)
        caps   == {k \in 1..Len(tokens) : k <= 3 /\ IsCapsToken(tokens[k])}
    IN  IF /\ HasColon(line)
           /\ lower(BeforeFirstColon(line)) \notin section_headers
           /\ Len(BeforeFirstColon(line)) <= 15
        THEN upper(BeforeFirstColon(line))
        ELSE IF caps # {}
        THEN tokens[CHOOSE k \in caps : \A j \in caps : k <= j]
        ELSE DEFAULT_LABEL

\* no colon on the first line and no all-capital token among its first three
NoNameSignal(text) ==
    LET line   == FirstNonEmptyLine(text)
        tokens == split_ws(line)
    IN  /\ ~HasColon(line)
        /\ \A k \in 1..Len(tokens) : k <= 3 => ~isupper(tokens[k])

\* C4: extract_company_name returns a non-empty string for every input, and
\* exactly "INVESTMENT" for empty input, whitespace-only input and input whose
\* first line has no colon and no all-capital token among its first three.
C4_NonEmptyLabel ==
    name_pc = "returned" =>
        /\ Len(company_label) > 0
        /\ (NoNameSignal(raw_text) => company_label = DEFAULT_LABEL)

\* C9: every returned label is "INVESTMENT" or a string of at most 15
\* characters that contains no lowercase letter.
C9_ShortUppercaseLabel ==
    name_pc = "returned" =>
        \/ company_label = DEFAULT_LABEL
        \/ /\ Len(company_label) <= 15
           /\ \A i \in 1..Len(company_label) : ~IsLowerChar(company_label[i])

\* C10: the label is decided by the colon rule first, then by the first
\* qualifying all-capital token among the first three, then by the default.
C10_RulePrecedence ==
    name_pc = "returned" => company_label = PrecedenceLabel(raw_text)

\* C10 witness: "ACME: Executive Summary" has been labelled "ACME" by the colon
\* rule although its first token is all capitals.
C10_Witness ==
    /\ name_pc = "returned"
    /\ raw_text = <<"A", "C", "M", "E", ":", " ", "E", "x", "e", "c", "u", "t", "i", "v", "e",
                    " ", "S", "u", "m", "m", "a", "r", "y">>
    /\ caps_rule(first_line_of(raw_text))[1] = "label"
    /\ company_label = <<"A", "C", "M", "E">>

(***************************************************************************)
(* parse_thesis_sections                                                   *)
(***************************************************************************)
\* current_section is None, or a str
None == <<"None">>
Str(s) == <<"str", s>>

\* truth value of `if current_section:` (None and '' are false)
Truthy(v) == v # None /\ v[2] # <<>>

ParseStart == [sections |-> <<>>, current_section |-> None, current_content |-> <<>>]

\* the dict appended to sections for the open section
SectionDict(st) ==
    [title   |-> st.current_section[2],
     content |-> strip(join(<<"\n">>, st.current_content))]

\* the header test, on the stripped line
is_header(line) == endswith(line, ":") /\ line # <<>> /\ ~startswith(line, " ")

\* faulty variant: a header line leaves the lines collected so far in current_content
header_line_keep_content(st, line) ==
    [sections        |-> IF Truthy(st.current_section)
                         THEN Append(st.sections, SectionDict(st))
                         ELSE st.sections,
     current_section |-> Str(SubSeq(line, 1, Len(line) - 1)),
     current_content |-> IF Truthy(st.current_section) THEN <<>> ELSE st.current_content]

\* the branch of the loop body taken on a header line
header_line(st, line) ==
    [sections        |-> IF Truthy(st.current_section)
                         THEN Append(st.sections, SectionDict(st))
                         ELSE st.sections,
     current_section |-> Str(SubSeq(line, 1, Len(line) - 1)),
     current_content |-> <<>>]

\* one iteration of `for line in lines`
parse_line(st, raw_line) ==
    LET line == strip(raw_line)
    IN  IF is_header(line) THEN header_line(st, line)
        ELSE IF line # <<>> THEN [st EXCEPT !.current_content = Append(@, line)]
        ELSE st

RECURSIVE parse_lines(_, _, _)
parse_lines(st, lines, k) ==
    IF k > Len(lines) THEN st ELSE parse_lines(parse_line(st, lines[k]), lines, k + 1)

parse_thesis_sections(text) ==
    LET st == parse_lines(ParseStart, split(text, "\n"), 1)
    IN  IF Truthy(st.current_section)
        THEN Append(st.sections, SectionDict(st))
        ELSE st.sections

(***************************************************************************)
(* Inputs of parse_thesis_sections: texts of up to MaxLines lines          *)
(***************************************************************************)
MaxLines == 4

LinePool ==
    { <<>>, <<"A", ":">>, <<"B", ":">>, <<":">>, <<" ", "A", ":">>, <<"B", ":", " ">>,
      <<"x">>, <<" ", "y", " ">>, <<"x", ":", "y">> }

ParseInputs ==
    {join(<<"\n">>, ls) : ls \in UNION {[1..k -> LinePool] : k \in 1..MaxLines}}

ParseInit ==
    /\ parse_pc = "call"
    /\ formatted_text \in ParseInputs
    /\ sections = <<>>
    /\ NameIdle /\ BulletIdle /\ RenderIdle /\ SessionIdle
    /\ OverlayIdle

ParseThesisSections ==
    /\ parse_pc = "call"
    /\ sections' = parse_thesis_sections(formatted_text)
    /\ parse_pc' = "returned"
    /\ UNCHANGED <<formatted_text, nameVars, bulletVars, renderVars, sessionVars>>
    /\ UNCHANGED overlayVars

ParseNext == ParseThesisSections

SpecParse == ParseInit /\ [][ParseNext]_vars

(***************************************************************************)
(* Claims about parse_thesis_sections                                      *)
(***************************************************************************)
TextLines(text) == split(text, "\n")

\* a header line: its trimmed form is non-empty and ends with ':'
IsHeaderLine(l) == strip(l) # <<>> /\ strip(l)[Len(strip(l))] = ":"
IsBlankLine(l) == strip(l) = <<>>

HeaderIndexes(text) ==
    {k \in 1..Len(TextLines(text)) : IsHeaderLine(TextLines(text)[k])}

\* the index after the last line that belongs to the header at index h
SectionEnd(text, h) ==
    LET later == {k \in HeaderIndexes(text) : k > h}
    IN  IF later = {} THEN Len(TextLines(text)) + 1 ELSE SetMin(later)

\* the trimmed non-blank lines strictly between index lo and index hi
BodyLines(text, lo, hi) ==
    LET between == SubSeq(TextLines(text), lo + 1, hi - 1)
        trimmed == [k \in 1..Len(between) |-> strip(between[k])]
    IN  SelectSeq(trimmed, LAMBDA l : l # <<>>)

\* N header lines, each followed by at least one non-blank body line,
\* and nothing but blank lines before the first header
WellFormed(text) ==
    /\ \A k \in 1..Len(TextLines(text)) :
          (\A h \in HeaderIndexes(text) : k < h) => IsBlankLine(TextLines(text)[k])
    /\ \A h \in HeaderIndexes(text) : BodyLines(text, h, SectionEnd(text, h)) # <<>>

\* one section per header, in document order
ExpectedSections(text) ==
    LET H == HeaderIndexes(text)
    IN  [i \in 1..Cardinality(H) |->
            LET h == Nth(H, i)
                l == strip(TextLines(text)[h])
            IN  [title   |-> SubSeq(l, 1, Len(l) - 1),
                 content |-> join(<<"\n">>, BodyLines(text, h, SectionEnd(text, h)))]]

\* C2: a well-formed text of N headers, each with a body, parses into exactly
\* N sections in document order, each titled by its header without the
\* trailing colon and holding its trimmed body lines joined by newlines.
C2_WellFormedSections ==
    (parse_pc = "returned" /\ WellFormed(formatted_text)) =>
        sections = ExpectedSections(formatted_text)

\* the lines of every emitted content, in order of emission
RECURSIVE ContentLines(_)
ContentLines(secs) ==
    IF secs = <<>> THEN <<>>
    ELSE (IF Head(secs).content = <<>> THEN <<>> ELSE split(Head(secs).content, "\n"))
         \o ContentLines(Tail(secs))

\* a is b with some elements left out
RECURSIVE IsSubsequence(_, _)
IsSubsequence(a, b) ==
    IF a = <<>> THEN TRUE
    ELSE IF b = <<>> THEN FALSE
    ELSE IF Head(a) = Head(b) THEN IsSubsequence(Tail(a), Tail(b))
    ELSE IsSubsequence(a, Tail(b))

\* the trimmed non-blank non-header lines that follow the first header
LinesAfterFirstHeader(text) ==
    LET H    == HeaderIndexes(text)
        rest == SubSeq(TextLines(text), SetMin(H) + 1, Len(TextLines(text)))
        body == SelectSeq(rest, LAMBDA l : ~IsBlankLine(l) /\ ~IsHeaderLine(l))
    IN  [k \in 1..Len(body) |-> strip(body[k])]

\* C3: no line that precedes the first header reaches the content of an
\* emitted section (the emitted content lines are, in order, among the body
\* lines that follow the first header), and a text without a header line
\* yields the empty sequence.
C3_PreambleDropped ==
    parse_pc = "returned" =>
        IF HeaderIndexes(formatted_text) = {}
        THEN sections = <<>>
        ELSE IsSubsequence(ContentLines(sections), LinesAfterFirstHeader(formatted_text))

\* C3 witness: a text with a non-blank line before its first header has been
\* parsed into at least one section with content.
C3_Witness ==
    /\ parse_pc = "returned"
    /\ HeaderIndexes(formatted_text) # {}
    /\ \E k \in 1..Len(TextLines(formatted_text)) :
          /\ k < SetMin(HeaderIndexes(formatted_text))
          /\ ~IsBlankLine(TextLines(formatted_text)[k])
    /\ sections # <<>>
    /\ sections[1].content # <<>>

\* a header line by the stated rule: trimmed form non-empty and ending in
\* ':', and no whitespace at the start of the untrimmed line
IsUnindentedHeaderLine(l) == IsHeaderLine(l) /\ l[1] \notin Whitespace

IsIndentedColonLine(l) == IsHeaderLine(l) /\ l[1] \in Whitespace

\* the titles of the lines that are headers by the stated rule, in order
UnindentedHeaderTitles(text) ==
    LET heads == SelectSeq(TextLines(text), IsUnindentedHeaderLine)
    IN  [k \in 1..Len(heads) |-> SubSeq(strip(heads[k]), 1, Len(strip(heads[k])) - 1)]

SectionTitles(secs) == [k \in 1..Len(secs) |-> secs[k].title]

\* C11: only a line whose trimmed form is non-empty and ends with ':' and
\* whose untrimmed form has no leading whitespace opens a section (the titles
\* of the emitted sections are, in order, among the titles of such lines), and
\* an indented line ending in a colon is body text: when it follows a header
\* its trimmed form is a line of some emitted content.
C11_IndentedColonLineIsBody ==
    parse_pc = "returned" =>
        /\ IsSubsequence(SectionTitles(sections), UnindentedHeaderTitles(formatted_text))
        /\ \A k \in 1..Len(TextLines(formatted_text)) :
              (/\ IsIndentedColonLine(TextLines(formatted_text)[k])
               /\ \E h \in 1..(k - 1) :
                     /\ IsUnindentedHeaderLine(TextLines(formatted_text)[h])
                     /\ strip(TextLines(formatted_text)[h]) # <<":">>)
              => strip(TextLines(formatted_text)[k]) \in Range(ContentLines(sections))

\* C12: every input yields exactly one section per header line, in order of
\* appearance: the i-th section carries the title of the i-th header line
\* and the trimmed non-blank lines up to the next header line (or the end of
\* the input) as content, so repeated titles stay separate records and a
\* header without body lines yields a record with empty content.
C12_OneSectionPerHeader ==
    parse_pc = "returned" =>
        /\ Len(sections) = Cardinality(HeaderIndexes(formatted_text))
        /\ \A i \in 1..Len(sections) :
              i <= Cardinality(HeaderIndexes(formatted_text)) =>
                  sections[i] = ExpectedSections(formatted_text)[i]

(***************************************************************************)
(* create_bullet_points                                                    *)
(***************************************************************************)
max_content_length == 1000
SentencesScanned == 10
WordsInSimpleBullet == 6

generic_phrases ==
    { <<"k", "e", "y", " ", "t", "h", "e", "s", "i", "s", " ", "p", "o", "i", "n", "t">>,
      <<"i", "n", "v", "e", "s", "t", "m", "e", "n", "t", " ", "c", "o", "n", "s", "i", "d", "e", "r", "a", "t", "i", "o", "n">>,
      <<"s", "t", "r", "a", "t", "e", "g", "i", "c", " ", "f", "a", "c", "t", "o", "r">>,
      <<"r", "e", "q", "u", "i", "r", "e", "s", " ", "a", "n", "a", "l", "y", "s", "i", "s">> }

\* the keywords, lower-cased as the code compares them
keywords ==
    { <<"c", "e", "o">>,
      <<"s", "t", "o", "c", "k">>,
      <<"p", "r", "i", "c", "e">>,
      <<"m", "a", "r", "g", "i", "n">>,
      <<"r", "e", "v", "e", "n", "u", "e">>,
      <<"a", "c", "t", "i", "v", "i", "s", "t">>,
      <<"m", "&", "a">>,
      <<"s", "a", "l", "e">>,
      <<"a", "c", "q", "u", "i", "s", "i", "t", "i", "o", "n">>,
      <<"v", "a", "l", "u", "e">>,
      <<"g", "r", "o", "w", "t", "h">>,
      <<"d", "e", "c", "l", "i", "n", "e">> }

\* the outcome of client.chat.completions.create: an exception (error, timeout,
\* a content of None) or the text of the first choice
Raised == <<"raise">>
Completed(text) == <<"ok", text>>

\* seq[:n]
Take(seq, n) == IF Len(seq) <= n THEN seq ELSE SubSeq(seq, 1, n)

\* [x.strip() for x in seq]
strip_all(seq) == [k \in 1..Len(seq) |-> strip(seq[k])]

\* len(s.split())
WordCount(s) == Len(split_ws(s))

\* s.replace('\n', '. ')
replace_newlines(s) ==
    IF \A i \in 1..Len(s) : s[i] # "\n" THEN s
    ELSE Flatten([i \in 1..Len(s) |-> IF s[i] = "\n" THEN <<".", " ">> ELSE <<s[i]>>])

\* content as the prompt and the fallbacks see it
truncate(c) ==
    IF Len(c) > max_content_length
    THEN SubSeq(c, 1, max_content_length) \o <<".", ".", ".">>
    ELSE c

\* content.replace('\n', '. ').split('.'), each sentence stripped
sentences_of(c) == strip_all(split(replace_newlines(c), "."))

is_generic(bullet) == \E phrase \in generic_phrases : contains(lower(bullet), phrase)

\* the bullets kept by the generic-phrase and word-count filter
filter_bullets(bs) ==
    SelectSeq(bs, LAMBDA b : ~is_generic(b) /\ WordCount(b) >= 3)

\* the keyword sentences of the first ten sentences, at most three
extract_keyword_sentences(c) ==
    Take(SelectSeq(Take(sentences_of(c), SentencesScanned),
                   LAMBDA s : /\ WordCount(s) >= 5
                              /\ WordCount(s) <= 12
                              /\ \E kw \in keywords : contains(lower(s), kw)),
         3)

\* the bullet the padding loop appends
pad_bullet(t, c) ==
    IF c # <<>>
    THEN IF WordCount(c) > WordsInSimpleBullet
         THEN join(<<" ">>, Take(split_ws(c), WordsInSimpleBullet))
         ELSE t \o <<" ", "u", "n", "d", "e", "r", " ", "a", "n", "a", "l", "y", "s", "i", "s">>
    ELSE t \o <<" ", "k", "e", "y", " ", "f", "a", "c", "t", "o", "r", "s">>

\* while len(filtered_bullets) < 3: append the pad
pad_to_three(bs, t, c) ==
    bs \o [k \in 1..(IF Len(bs) < 3 THEN 3 - Len(bs) ELSE 0) |-> pad_bullet(t, c)]

\* the sentences of 4 to 10 words, at most three
fallback_sentences(c) ==
    Take(SelectSeq(sentences_of(c),
                   LAMBDA s : s # <<>> /\ WordCount(s) >= 4 /\ WordCount(s) <= 10),
         3)

last_resort(t) ==
    << t \o <<" ", "p", "r", "e", "s", "e", "n", "t", "s", " ", "o", "p", "p", "o", "r", "t", "u", "n", "i", "t", "y">>,
       <<"K", "e", "y", " ", "m", "e", "t", "r", "i", "c", "s", " ", "s", "h", "o", "w", " ", "p", "o", "t", "e", "n", "t", "i", "a", "l">>,
       <<"I", "n", "v", "e", "s", "t", "m", "e", "n", "t", " ", "t", "h", "e", "s", "i", "s", " ", "u", "n", "d", "e", "r", " ", "r", "e", "v", "i", "e", "w">> >>

\* the except branch
except_branch(t, c) ==
    LET fallback_bullets == fallback_sentences(c)
    IN  IF c # <<>> /\ fallback_bullets # <<>>
        THEN fallback_bullets
        ELSE last_resort(t)

\* the try branch once the completion has returned `text`
try_branch(t, c, text) ==
    LET result   == strip(text)
        lines    == SelectSeq(strip_all(split(result, "\n")), LAMBDA l : l # <<>>)
        filtered == filter_bullets(lines)
        extracted_bullets == extract_keyword_sentences(c)
    IN  IF result = <<>> \/ Len(lines) < 2 THEN except_branch(t, c)
        ELSE IF Len(filtered) < 2 /\ extracted_bullets # <<>>
        THEN extracted_bullets
        ELSE Take(pad_to_three(filtered, t, c), 3)

create_bullet_points(t, c, outcome) ==
    IF outcome = Raised
    THEN except_branch(t, truncate(c))
    ELSE try_branch(t, truncate(c), outcome[2])

(***************************************************************************)
(* Inputs of create_bullet_points                                          *)
(***************************************************************************)
MaxRespLines == 4

Filler(n) == [i \in 1..n |-> "x"]

ContentPool ==
    { <<>>,
      <<"a", " ", "b">>,
      <<"R", "e", "v", "e", "n", "u", "e", " ", "g", "r", "e", "w", " ", "2", "0", "%", " ", "a", "s", " ", "t", "h", "e", " ", "n", "e", "w", " ", "C", "E", "O", " ", "c", "l", "o", "s", "e", "d", " ", "t", "w", "o", " ", "a", "c", "q", "u", "i", "s", "i", "t", "i", "o", "n", "s", ".">>,
      <<"a", " ", "b", " ", "c", " ", "d", ".", " ", "e", " ", "f", " ", "g", " ", "h", ".", " ", "i", " ", "j", " ", "k", " ", "l", ".", " ", "m", " ", "n", " ", "o", " ", "p", ".">>,
      <<"a", " ", "b", " ", "c", " ", "d", "\n", "e", " ", "f", " ", "g", " ", "h">>,
      <<"t", "h", "e", " ", "s", "t", "o", "c", "k", " ", "p", "r", "i", "c", "e", " ", "f", "e", "l", "l", " ", "t", "o", "d", "a", "y", ".", " ", "r", "e", "v", "e", "n", "u", "e", " ", "g", "r", "o", "w", "t", "h", " ", "w", "a", "s", " ", "s", "t", "r", "o", "n", "g", " ", "a", "g", "a", "i", "n", ".", " ", "t", "h", "e", " ", "c", "e", "o", " ", "b", "o", "u", "g", "h", "t", " ", "m", "o", "r", "e", " ", "s", "h", "a", "r", "e", "s", ".", " ", "m", "a", "r", "g", "i", "n", " ", "d", "e", "c", "l", "i", "n", "e", " ", "i", "s", " ", "a", " ", "r", "i", "s", "k", ".">>,
      <<"o", "n", "e", " ", "t", "w", "o", " ", "t", "h", "r", "e", "e", " ", "f", "o", "u", "r", " ", "f", "i", "v", "e", " ", "s", "i", "x", " ", "s", "e", "v", "e", "n", " ", "e", "i", "g", "h", "t", " ", "n", "i", "n", "e", " ", "t", "e", "n", " ", "e", "l", "e", "v", "e", "n">>,
      <<"t", "h", "e", " ", "s", "t", "o", "c", "k", " ", "p", "r", "i", "c", "e", " ", "f", "e", "l", "l", " ", "t", "o", "d", "a", "y", ".", " ", "x", ".">> } \cup
    { Filler(996) \o <<".", " ", "a", " ", "b", " ", "c", " ", "d", " ", "e", " ", "f">>,
      <<"a", " ", "b", " ", "c", " ", "d", " ", "e", ".">> \o Filler(1000) }

ResponseLinePool ==
    { <<>>,
      <<"a", " ", "b", " ", "c">>,
      <<"d", " ", "e", " ", "f", " ", "g">>,
      <<"a", " ", "b">>,
      <<"K", "e", "y", " ", "t", "h", "e", "s", "i", "s", " ", "p", "o", "i", "n", "t", " ", "h", "e", "r", "e">> }

Responses ==
    {join(<<"\n">>, ls) : ls \in UNION {[1..k -> ResponseLinePool] : k \in 0..MaxRespLines}}

Completions == {Raised} \cup {Completed(r) : r \in Responses}

BulletInit ==
    /\ bullet_pc = "call"
    /\ title = <<"T">>
    /\ content \in ContentPool
    /\ completion \in Completions
    /\ bullets = <<>>
    /\ NameIdle /\ ParseIdle /\ RenderIdle /\ SessionIdle
    /\ OverlayIdle

CreateBulletPoints ==
    /\ bullet_pc = "call"
    /\ bullets' = create_bullet_points(title, content, completion)
    /\ bullet_pc' = "returned"
    /\ UNCHANGED <<title, content, completion, nameVars, parseVars, renderVars, sessionVars>>
    /\ UNCHANGED overlayVars

BulletNext == CreateBulletPoints

SpecBullets == BulletInit /\ [][BulletNext]_vars

\* C1: create_bullet_points returns exactly 3 strings for every title, every
\* content and every outcome of the completion call.
C1_ExactlyThreeBullets ==
    bullet_pc = "returned" => Len(bullets) = 3

\* the non-blank lines of a completion text, trimmed
ResponseLines(text) ==
    SelectSeq(strip_all(split(strip(text), "\n")), LAMBDA l : l # <<>>)

\* the completion call raised, returned an empty text, or returned fewer
\* than 2 non-blank lines
CompletionFailed ==
    \/ completion = Raised
    \/ completion[1] = "ok" /\ Len(ResponseLines(completion[2])) < 2

\* the sentences of 4 to 10 words of a content, in order of appearance
ShortSentences(c) ==
    SelectSeq(sentences_of(c), LAMBDA s : WordCount(s) >= 4 /\ WordCount(s) <= 10)

CannedStrings(t) ==
    << t \o <<" ", "p", "r", "e", "s", "e", "n", "t", "s", " ", "o", "p", "p", "o", "r", "t", "u", "n", "i", "t", "y">>,
       <<"K", "e", "y", " ", "m", "e", "t", "r", "i", "c", "s", " ", "s", "h", "o", "w", " ", "p", "o", "t", "e", "n", "t", "i", "a", "l">>,
       <<"I", "n", "v", "e", "s", "t", "m", "e", "n", "t", " ", "t", "h", "e", "s", "i", "s", " ", "u", "n", "d", "e", "r", " ", "r", "e", "v", "i", "e", "w">> >>

\* the result the failure path owes for content c
FailurePathResult(t, c) ==
    IF ShortSentences(c) # <<>> THEN Take(ShortSentences(c), 3) ELSE CannedStrings(t)

\* C13: when the completion call raises, returns an empty text or returns
\* fewer than 2 non-blank lines, the result is the first (at most three)
\* sentences of 4 to 10 words of the content given to create_bullet_points,
\* in order of appearance, and when the content has no such sentence it is
\* exactly the three canned strings, the first of which embeds the title.
C13_FailurePathResult ==
    (bullet_pc = "returned" /\ CompletionFailed) =>
        bullets = FailurePathResult(title, content)

\* the completion call returned at least 2 non-blank lines
CompletionUsable ==
    completion # Raised /\ Len(ResponseLines(completion[2])) >= 2

Denylist ==
    { <<"k", "e", "y", " ", "t", "h", "e", "s", "i", "s", " ", "p", "o", "i", "n", "t">>,
      <<"i", "n", "v", "e", "s", "t", "m", "e", "n", "t", " ", "c", "o", "n", "s", "i", "d", "e", "r", "a", "t", "i", "o", "n">>,
      <<"s", "t", "r", "a", "t", "e", "g", "i", "c", " ", "f", "a", "c", "t", "o", "r">>,
      <<"r", "e", "q", "u", "i", "r", "e", "s", " ", "a", "n", "a", "l", "y", "s", "i", "s">> }

\* a response line that may be shown: no denylisted phrase in any casing,
\* and at least 3 words
Acceptable(l) ==
    /\ \A phrase \in Denylist : ~contains(lower(l), phrase)
    /\ WordCount(l) >= 3

Survivors(text) == SelectSeq(ResponseLines(text), Acceptable)

\* the pad for content c: its first 6 words when it has more than 6 words,
\* otherwise a templated string that embeds the title
IsPad(b, t, c) ==
    IF WordCount(c) > 6
    THEN b = join(<<" ">>, SubSeq(split_ws(c), 1, 6))
    ELSE Len(b) > Len(t) /\ SubSeq(b, 1, Len(t)) = t

\* C14: after a completion of at least 2 non-blank lines, every result
\* string that is a line of the response has no denylisted phrase and at
\* least 3 words; and when at least 2 response lines survive the filter the
\* result is the first three survivors in response order, or the two
\* survivors followed by the pad for the content given to
\* create_bullet_points.
C14_FilteredBulletsAndPad ==
    (bullet_pc = "returned" /\ CompletionUsable) =>
        LET survivors == Survivors(completion[2])
        IN  /\ \A i \in 1..Len(bullets) :
                  bullets[i] \in Range(ResponseLines(completion[2])) => Acceptable(bullets[i])
            /\ Len(survivors) >= 3 => bullets = SubSeq(survivors, 1, 3)
            /\ Len(survivors) = 2 =>
                  /\ Len(bullets) = 3
                  /\ SubSeq(bullets, 1, 2) = survivors
                  /\ IsPad(bullets[3], title, content)

(***************************************************************************)
(* create_space_visualization_html: json.dumps and the document template   *)
(*                                                                         *)
(* A document is a sequence of characters in which each stretch of fixed   *)
(* template text is one element, and so is each occurrence of the 24 (25)  *)
(* characters COMPANY_NAME_PLACEHOLDER (SECTIONS_JSON_PLACEHOLDER).        *)
(***************************************************************************)
COMPANY_NAME_PLACEHOLDER == "COMPANY_NAME_PLACEHOLDER"
SECTIONS_JSON_PLACEHOLDER == "SECTIONS_JSON_PLACEHOLDER"

TemplateHead == "<!DOCTYPE html>...<div id=\"main-title\">"
TemplateData == " ANALYSIS</div>...<script> const thesisSections = "
TemplateName == "; const companyName = \""
TemplateTail == "\"; const positions = [...]; ... createThesisLayout(); </script></body></html>"

html_template ==
    << TemplateHead, COMPANY_NAME_PLACEHOLDER, TemplateData, SECTIONS_JSON_PLACEHOLDER,
       TemplateName, COMPANY_NAME_PLACEHOLDER, TemplateTail >>

\* json.dumps of one character of a str (ensure_ascii)
EscapeChar(c) ==
    CASE c = "\"" -> <<"\\", "\"">>
      [] c = "\\" -> <<"\\", "\\">>
      [] c = "\n" -> <<"\\", "n">>
      [] c = "\t" -> <<"\\", "t">>
      [] c = "ß"  -> <<"\\", "u", "0", "0", "d", "f">>
      [] OTHER    -> <<c>>

\* json.dumps of a str
dumps_str(s) == <<"\"">> \o Flatten([i \in 1..Len(s) |-> EscapeChar(s[i])]) \o <<"\"">>

\* json.dumps of a list, given the dumps of its items
dumps_list(items) == <<"[">> \o join(<<",", " ">>, items) \o <<"]">>

\* json.dumps of {'title': ..., 'bullets': [...]}
dumps_section(sec) ==
    <<"{">> \o dumps_str(<<"t", "i", "t", "l", "e">>) \o <<":", " ">> \o dumps_str(sec.title)
    \o <<",", " ">> \o dumps_str(<<"b", "u", "l", "l", "e", "t", "s">>) \o <<":", " ">>
    \o dumps_list([k \in 1..Len(sec.bullets) |-> dumps_str(sec.bullets[k])]) \o <<"}">>

\* json.dumps(processed_sections)
json_dumps(secs) == dumps_list([k \in 1..Len(secs) |-> dumps_section(secs[k])])

\* doc.replace(placeholder, value)
replace_placeholder(doc, placeholder, value) ==
    Flatten([i \in 1..Len(doc) |-> IF doc[i] = placeholder THEN value ELSE <<doc[i]>>])

\* the two replace calls on html_template
fill_template(processed_json, label) ==
    replace_placeholder(
        replace_placeholder(html_template, SECTIONS_JSON_PLACEHOLDER, processed_json),
        COMPANY_NAME_PLACEHOLDER, label)

(***************************************************************************)
(* The script of the document: the literal assigned to thesisSections and  *)
(* createThesisLayout                                                      *)
(***************************************************************************)
PanelPositions == 6

ParseFail == [ok |-> FALSE, val |-> <<"none">>, next |-> 0]
ParseOk(v, n) == [ok |-> TRUE, val |-> v, next |-> n]

CharAt(s, i) == IF i >= 1 /\ i <= Len(s) THEN s[i] ELSE "<end>"

RECURSIVE SkipSpace(_, _)
SkipSpace(s, i) == IF CharAt(s, i) \in Whitespace THEN SkipSpace(s, i + 1) ELSE i

\* the character an escape sequence \c denotes in a string literal
Unescape(c) == CASE c = "n" -> "\n" [] c = "t" -> "\t" [] OTHER -> c

RECURSIVE js_string(_, _, _)
\* the rest of a string literal, from index j on, after its opening quote
js_string(s, j, acc) ==
    LET c == CharAt(s, j)
    IN  IF j > Len(s) \/ c = "\n" THEN ParseFail
        ELSE IF c = "\"" THEN ParseOk(<<"str", acc>>, j + 1)
        ELSE IF c = "\\"
        THEN IF j + 1 > Len(s) THEN ParseFail
             ELSE IF s[j + 1] = "u"
             THEN IF SubSeq(s, j + 2, j + 5) = <<"0", "0", "d", "f">>
                  THEN js_string(s, j + 6, Append(acc, "ß"))
                  ELSE ParseFail
             ELSE js_string(s, j + 2, Append(acc, Unescape(s[j + 1])))
        ELSE js_string(s, j + 1, Append(acc, c))

RECURSIVE js_value(_, _), js_items(_, _, _), js_members(_, _, _)
\* a string, array or object literal starting at index i0
js_value(s, i0) ==
    LET i == SkipSpace(s, i0)
        c == CharAt(s, i)
    IN  IF c = "\"" THEN js_string(s, i + 1, <<>>)
        ELSE IF c = "["
        THEN IF CharAt(s, SkipSpace(s, i + 1)) = "]"
             THEN ParseOk(<<"arr", <<>>>>, SkipSpace(s, i + 1) + 1)
             ELSE js_items(s, i + 1, <<>>)
        ELSE IF c = "{"
        THEN IF CharAt(s, SkipSpace(s, i + 1)) = "}"
             THEN ParseOk(<<"obj", <<>>>>, SkipSpace(s, i + 1) + 1)
             ELSE js_members(s, i + 1, <<>>)
        ELSE ParseFail

\* the items of an array literal from index i on
js_items(s, i, acc) ==
    LET v == js_value(s, i)
        j == SkipSpace(s, v.next)
    IN  IF ~v.ok THEN ParseFail
        ELSE IF CharAt(s, j) = "]" THEN ParseOk(<<"arr", Append(acc, v.val)>>, j + 1)
        ELSE IF CharAt(s, j) = "," THEN js_items(s, j + 1, Append(acc, v.val))
        ELSE ParseFail

\* the members of an object literal from index i on
js_members(s, i, acc) ==
    LET k == js_value(s, i)
        c == SkipSpace(s, k.next)
        v == js_value(s, c + 1)
        j == SkipSpace(s, v.next)
    IN  IF ~k.ok \/ k.val[1] # "str" \/ CharAt(s, c) # ":" THEN ParseFail
        ELSE IF ~v.ok THEN ParseFail
        ELSE IF CharAt(s, j) = "}"
        THEN ParseOk(<<"obj", Append(acc, <<k.val[2], v.val>>)>>, j + 1)
        ELSE IF CharAt(s, j) = "," THEN js_members(s, j + 1, Append(acc, <<k.val[2], v.val>>))
        ELSE ParseFail

\* obj[key]: the value of the last member named key, <<"undefined">> without one
Member(obj, key) ==
    LET hits == {k \in 1..Len(obj[2]) : obj[2][k][1] = key}
    IN  IF hits = {} THEN <<"undefined">>
        ELSE obj[2][CHOOSE k \in hits : \A j \in hits : j <= k][2]

IsStr(v) == v[1] = "str"
IsStrArray(v) == v[1] = "arr" /\ \A k \in 1..Len(v[2]) : IsStr(v[2][k])

\* an element of thesisSections that has a string title and an array of string bullets
IsSectionObject(v) ==
    /\ v[1] = "obj"
    /\ IsStr(Member(v, <<"t", "i", "t", "l", "e">>))
    /\ IsStrArray(Member(v, <<"b", "u", "l", "l", "e", "t", "s">>))

SectionOf(v) ==
    LET bs == Member(v, <<"b", "u", "l", "l", "e", "t", "s">>)[2]
    IN  [title   |-> Member(v, <<"t", "i", "t", "l", "e">>)[2],
         bullets |-> [k \in 1..Len(bs) |-> bs[k][2]]]

\* the value of `const thesisSections = ...;` in a document: ok is false when
\* the statement does not parse or is not a list of sections
thesisSections(doc) ==
    LET at == {i \in 1..Len(doc) : doc[i] = TemplateData}
        v  == js_value(doc, SetMin(at) + 1)
    IN  IF at = {} \/ ~v.ok THEN [ok |-> FALSE, sections |-> <<>>]
        ELSE IF CharAt(doc, v.next) # TemplateName \/ v.val[1] # "arr"
        THEN [ok |-> FALSE, sections |-> <<>>]
        ELSE IF \E k \in 1..Len(v.val[2]) : ~IsSectionObject(v.val[2][k])
        THEN [ok |-> FALSE, sections |-> <<>>]
        ELSE [ok |-> TRUE, sections |-> [k \in 1..Len(v.val[2]) |-> SectionOf(v.val[2][k])]]

\* the sections createThesisLayout adds a panel for (index < positions.length)
createThesisLayout(doc) ==
    IF thesisSections(doc).ok THEN Take(thesisSections(doc).sections, PanelPositions) ELSE <<>>

(***************************************************************************)
(* create_space_visualization_html as a process: one completion call per   *)
(* section, then the document; then the page runs its script               *)
(***************************************************************************)
MaxSections == 7
MaxTail == 2

SecMoat ==
    [title |-> <<"M", "o", "a", "t">>, content |-> <<"a", " ", "b", " ", "c", " ", "d", ".", " ", "e", " ", "f", " ", "g", " ", "h", ".">>]
SecRisks ==
    [title |-> <<"R", "i", "s", "k", "s", " ", "\"", "q", "\\", "ß", "\"">>, content |-> <<>>]
SecToken ==
    [title   |-> <<COMPANY_NAME_PLACEHOLDER>>,
     content |-> <<SECTIONS_JSON_PLACEHOLDER, " ", "u", "p", " ", "a", " ", "l", "o", "t", ".">>]

SectionPool == {SecMoat, SecRisks, SecToken}

\* k leading copies of SecMoat followed by up to MaxTail sections of the pool
SectionLists ==
    {[i \in 1..k |-> SecMoat] \o v :
        k \in 0..MaxSections,
        v \in UNION {[1..n -> SectionPool] : n \in 0..MaxTail}}

LabelPool == { <<"A", "C", "M", "E">>, <<"X", "\"">> }

RenderCompletions ==
    { Raised, Completed(<<"x", " ", "y", " ", "z", "\n", "u", " ", "v", " ", "w", "\n", "r", " ", "s", " ", "t">>) }

RenderInit ==
    /\ render_pc = "loop"
    /\ viz_sections \in {l \in SectionLists : Len(l) <= MaxSections}
    /\ company_name \in LabelPool
    /\ processed_sections = <<>>
    /\ html_content = <<>>
    /\ panels = <<>>
    /\ NameIdle /\ ParseIdle /\ BulletIdle /\ SessionIdle
    /\ OverlayIdle

\* `for section in sections`: the completion request for the next section is sent
IssueBulletCall ==
    /\ render_pc = "loop"
    /\ Len(processed_sections) < Len(viz_sections)
    /\ render_pc' = "call"
    /\ UNCHANGED <<viz_sections, company_name, processed_sections, html_content, panels>>
    /\ UNCHANGED <<nameVars, parseVars, bulletVars, sessionVars>>
    /\ UNCHANGED overlayVars

\* the completion call returns or raises; create_bullet_points returns
BulletCallReturns ==
    /\ render_pc = "call"
    /\ \E outcome \in RenderCompletions :
          LET section == viz_sections[Len(processed_sections) + 1]
          IN  processed_sections' =
                 Append(processed_sections,
                        [title   |-> section.title,
                         bullets |-> create_bullet_points(section.title, section.content, outcome)])
    /\ render_pc' = "loop"
    /\ UNCHANGED <<viz_sections, company_name, html_content, panels>>
    /\ UNCHANGED <<nameVars, parseVars, bulletVars, sessionVars>>
    /\ UNCHANGED overlayVars

\* faulty variant: the document is built while sections are still unprocessed
RenderDocumentBeforeLastBullet ==
    /\ render_pc = "loop"
    /\ Len(processed_sections) <= Len(viz_sections)
    /\ html_content' = fill_template(json_dumps(processed_sections), company_name)
    /\ render_pc' = "rendered"
    /\ UNCHANGED <<viz_sections, company_name, processed_sections, panels>>
    /\ UNCHANGED <<nameVars, parseVars, bulletVars, sessionVars>>
    /\ UNCHANGED overlayVars

\* json.dumps(processed_sections) and the two replace calls
RenderDocument ==
    /\ render_pc = "loop"
    /\ Len(processed_sections) = Len(viz_sections)
    /\ html_content' = fill_template(json_dumps(processed_sections), company_name)
    /\ render_pc' = "rendered"
    /\ UNCHANGED <<viz_sections, company_name, processed_sections, panels>>
    /\ UNCHANGED <<nameVars, parseVars, bulletVars, sessionVars>>
    /\ UNCHANGED overlayVars

\* components.html shows the document: its script runs createThesisLayout
LoadDocument ==
    /\ render_pc = "rendered"
    /\ panels' = createThesisLayout(html_content)
    /\ render_pc' = "loaded"
    /\ UNCHANGED <<viz_sections, company_name, processed_sections, html_content>>
    /\ UNCHANGED <<nameVars, parseVars, bulletVars, sessionVars>>
    /\ UNCHANGED overlayVars

RenderNext == IssueBulletCall \/ BulletCallReturns \/ RenderDocument \/ LoadDocument

SpecRender == RenderInit /\ [][RenderNext]_vars

(***************************************************************************)
(* Claims about the rendered document                                      *)
(***************************************************************************)
\* a str as it is spelled inside a JSON string literal
Spelled(s) == Flatten([i \in 1..Len(s) |-> EscapeChar(s[i])])

\* the texts of one processed section
SectionTexts(sec) == {sec.title} \cup Range(sec.bullets)

\* the text occurs in what the document shows of the first six sections or of the label
ShownAnyway(text) ==
    \/ contains(json_dumps(Take(processed_sections, PanelPositions)), Spelled(text))
    \/ contains(company_name, text)

\* the section data in the document decodes to the processed sections
RoundTrips ==
    /\ thesisSections(html_content).ok
    /\ thesisSections(html_content).sections = processed_sections

\* C5: with more than 6 sections the page creates exactly 6 panels, those of
\* sections 1..6, and no title or bullet of a later section occurs in the
\* document string.
C5_LaterSectionsAbsent ==
    (render_pc = "loaded" /\ Len(viz_sections) > 6 /\ RoundTrips) =>
        /\ Len(panels) = 6
        /\ panels = SubSeq(processed_sections, 1, 6)
        /\ \A i \in 7..Len(processed_sections) :
              \A text \in SectionTexts(processed_sections[i]) :
                 ~ShownAnyway(text) => ~contains(html_content, Spelled(text))

\* C6: for N <= 6 processed sections and any label, the value assigned to
\* thesisSections in the returned document decodes to the same titles and
\* bullets in the same order.
C6_SectionDataRoundTrip ==
    (render_pc \in {"rendered", "loaded"} /\ Len(viz_sections) <= 6) => RoundTrips

(***************************************************************************)
(* The overlay of the loaded document: showSectionDetails, closeModal and  *)
(* the three event listeners                                               *)
(***************************************************************************)
\* faulty variant: the list is not emptied before the bullets are appended
showSectionDetailsAppending(m, section) ==
    [active |-> TRUE, title |-> section.title, bullets |-> m.bullets \o section.bullets]

\* title.textContent = section.title; the list is emptied and refilled with
\* one item per bullet; the class 'active' is added
showSectionDetails(m, section) ==
    LET emptied == [m EXCEPT !.title = section.title, !.bullets = <<>>]
    IN  [emptied EXCEPT !.bullets = @ \o section.bullets, !.active = TRUE]

closeModal(m) == [m EXCEPT !.active = FALSE]

\* the id attribute of the elements of the overlay
ElementId(target) == IF target = "content-modal" THEN "content-modal" ELSE ""

\* the elements inside .modal-content other than the close button
ModalContentElements == {"modal-content", "modal-title", "modal-bullets"}

Keys == {"Escape", "Enter"}

ClickEvent(target, index) == [type |-> "click", target |-> target, key |-> "", index |-> index]
KeyEvent(key) == [type |-> "keydown", target |-> "document", key |-> key, index |-> 0]

\* the click listener of a panel
section_click_listener(m, e) ==
    IF e.target = "thesis-section" THEN showSectionDetails(m, panels[e.index]) ELSE m

\* the click listener of .close-btn
close_btn_listener(m, e) ==
    IF e.target = "close-btn" THEN closeModal(m) ELSE m

\* the click listener of #content-modal, reached by every click inside it
content_modal_listener(m, e) ==
    IF e.target \in ({"content-modal", "close-btn"} \cup ModalContentElements)
       /\ ElementId(e.target) = "content-modal"
    THEN closeModal(m)
    ELSE m

\* the keydown listener of the document
keydown_listener(m, e) ==
    IF e.key = "Escape" THEN closeModal(m) ELSE m

\* an event runs the listeners on its path from the target to the document
dispatch(m, e) ==
    IF e.type = "click"
    THEN content_modal_listener(close_btn_listener(section_click_listener(m, e), e), e)
    ELSE keydown_listener(m, e)

Handle(e) ==
    /\ render_pc = "loaded"
    /\ modal' = dispatch(modal, e)
    /\ dom_event' = e
    /\ UNCHANGED <<nameVars, parseVars, bulletVars, renderVars, sessionVars>>

ClickSection == \E i \in 1..Len(panels) : Handle(ClickEvent("thesis-section", i))
ClickCloseButton == Handle(ClickEvent("close-btn", 0))
ClickBackdrop == Handle(ClickEvent("content-modal", 0))
ClickModalContent == \E target \in ModalContentElements : Handle(ClickEvent(target, 0))
KeyDown == \E key \in Keys : Handle(KeyEvent(key))

OverlaySectionLists == { <<SecMoat, SecRisks>>, <<SecRisks>> }

OverlayInit ==
    /\ render_pc = "loop"
    /\ viz_sections \in OverlaySectionLists
    /\ company_name = <<"A", "C", "M", "E">>
    /\ processed_sections = <<>>
    /\ html_content = <<>>
    /\ panels = <<>>
    /\ NameIdle /\ ParseIdle /\ BulletIdle /\ SessionIdle
    /\ OverlayIdle

OverlayNext ==
    \/ IssueBulletCall \/ BulletCallReturns \/ RenderDocument \/ LoadDocument
    \/ ClickSection \/ ClickCloseButton \/ ClickBackdrop \/ ClickModalContent \/ KeyDown

SpecOverlay == OverlayInit /\ [][OverlayNext]_vars

(***************************************************************************)
(* Claims about the overlay                                                *)
(***************************************************************************)
IsSectionClick(e) == e.type = "click" /\ e.target = "thesis-section"

\* the close button, the backdrop outside the overlay content, and Escape
IsCloseEvent(e) ==
    \/ e.type = "click" /\ e.target \in {"close-btn", "content-modal"}
    \/ e.type = "keydown" /\ e.key = "Escape"

\* the overlay shows the title and the bullets of panel i and nothing else
ShowsPanel(i) ==
    modal.active /\ modal.title = panels[i].title /\ modal.bullets = panels[i].bullets

\* what the overlay is after each kind of event
OverlayAfterEvent ==
    /\ dom_event = NoEvent => ~modal.active
    /\ IsSectionClick(dom_event) => ShowsPanel(dom_event.index)
    /\ IsCloseEvent(dom_event) => ~modal.active
    /\ modal.active => \E i \in 1..Len(panels) : ShowsPanel(i)

\* an event that is neither a panel click nor a close event changes nothing
OtherEventsKeepOverlay ==
    (dom_event' # NoEvent /\ ~IsSectionClick(dom_event') /\ ~IsCloseEvent(dom_event')) =>
        modal' = modal

\* C18: over any sequence of panel clicks, close-button clicks, backdrop
\* clicks, clicks inside the overlay content and key presses, the overlay is
\* visible exactly when a panel was clicked after the last close event; while
\* visible it shows the title and the bullets of the panel clicked last and
\* no bullet of another panel; the close button, a backdrop click and Escape
\* each hide it, and a click inside the overlay content does not.
C18_OverlayFollowsClicks ==
    [](OverlayAfterEvent) /\ [][OtherEventsKeepOverlay]_vars

\* C18 witness: with two panels on the page, the overlay shows the second
\* panel after a click inside the overlay content.
C18_Witness ==
    /\ render_pc = "loaded"
    /\ Len(panels) = 2
    /\ panels[1].bullets # <<>>
    /\ dom_event.type = "click"
    /\ dom_event.target = "modal-title"
    /\ ShowsPanel(2)
    /\ ~ShowsPanel(1)

(***************************************************************************)
(* main: the Streamlit script, one run per user action                     *)
(***************************************************************************)
\* format_thesis_with_headers: the completion verbatim, the input when the call raises
format_thesis_with_headers(text, outcome) ==
    IF outcome = Raised THEN text ELSE outcome[2]

\* has_formatted_text
has_formatted_text(text) == text # <<>> /\ contains(text, <<":">>)

\* faulty variant: any non-empty result counts as a successful format
format_succeeded_nonempty(formatted, text) == formatted # <<>>

\* `if formatted_text and formatted_text != thesis_text`
format_succeeded(formatted, text) == formatted # <<>> /\ formatted # text

\* faulty variant: the tip does not look at just_formatted
tip_due_ignoring_flag(text, flag) == text # <<>> /\ contains(text, <<":">>)

\* the tip at the end of the script
tip_due(text, flag) == text # <<>> /\ contains(text, <<":">>) /\ ~flag

MsgFormatError == "Error formatting thesis"
MsgFormatFailed == "Failed to format thesis"
MsgFormatted == "Thesis formatted successfully"
MsgTip == "Tip"

\* what the user can type or paste into the text area
TextPool ==
    { <<>>, <<"x", " ", "y">>, <<"x", ":", "y">>,
      <<"A", ":", "\n", "x">> }

\* what the segmentation completion can return
FormatResponses ==
    { <<>>, <<"x", " ", "y">>, <<"A", ":", "\n", "x">>,
      <<"B", ":", "\n", "y", " ", "z">>,
      <<"A", ":", "\n", "x", "\n", "B", ":", "\n", "y">> }

FormatCompletions == {Raised} \cup {Completed(r) : r \in FormatResponses}

Init ==
    /\ run_pc = "idle"
    /\ current_text = <<>>
    /\ just_formatted = FALSE
    /\ ss_company_name = None
    /\ thesis_text = <<>>
    /\ format_enabled = FALSE
    /\ viz_enabled = FALSE
    /\ messages = {}
    /\ NameIdle /\ ParseIdle /\ BulletIdle /\ RenderIdle
    /\ OverlayIdle

\* the page of a run that launches no visualization
NoVisualization ==
    /\ render_pc' = "idle" /\ viz_sections' = <<>> /\ company_name' = <<>>
    /\ processed_sections' = <<>> /\ html_content' = <<>> /\ panels' = <<>>

\* the user changes the text area: a run with no button pressed
EditText ==
    /\ run_pc = "idle"
    /\ \E text \in TextPool :
          /\ text # current_text
          /\ thesis_text' = text
          /\ current_text' = text
          /\ format_enabled' = (text # <<>>)
          /\ viz_enabled' = has_formatted_text(text)
          /\ messages' = IF tip_due(text, just_formatted) THEN {MsgTip} ELSE {}
    /\ just_formatted' = FALSE
    /\ NoVisualization
    /\ UNCHANGED <<run_pc, ss_company_name>>
    /\ UNCHANGED <<nameVars, parseVars, bulletVars>>
    /\ UNCHANGED overlayVars

\* the user presses "Format with Headers": the run stores the company name and
\* sends the segmentation request
ClickFormat ==
    /\ run_pc = "idle"
    /\ format_enabled
    /\ thesis_text # <<>>
    /\ ss_company_name' = Str(extract_company_name(thesis_text))
    /\ viz_enabled' = has_formatted_text(current_text)
    /\ messages' = {}
    /\ run_pc' = "formatting"
    /\ NoVisualization
    /\ UNCHANGED <<current_text, just_formatted, thesis_text, format_enabled>>
    /\ UNCHANGED <<nameVars, parseVars, bulletVars>>
    /\ UNCHANGED overlayVars

\* the segmentation call returns or raises, and the run goes on to its end or to st.rerun()
FormatReturns ==
    /\ run_pc = "formatting"
    /\ \E outcome \in FormatCompletions :
          LET formatted == format_thesis_with_headers(thesis_text, outcome)
              shown     == IF outcome = Raised THEN {MsgFormatError} ELSE {}
          IN  IF format_succeeded(formatted, thesis_text)
              THEN /\ current_text' = formatted
                   /\ just_formatted' = TRUE
                   /\ messages' = shown \cup {MsgFormatted}
                   /\ run_pc' = "rerun"
              ELSE /\ current_text' = current_text
                   /\ messages' = shown \cup {MsgFormatFailed}
                                    \cup (IF tip_due(current_text, just_formatted)
                                          THEN {MsgTip} ELSE {})
                   /\ just_formatted' = FALSE
                   /\ run_pc' = "idle"
    /\ UNCHANGED <<ss_company_name, thesis_text, format_enabled, viz_enabled>>
    /\ UNCHANGED <<nameVars, parseVars, bulletVars, renderVars>>
    /\ UNCHANGED overlayVars

\* the run started by st.rerun(): the text area shows the formatted text
Rerun ==
    /\ run_pc = "rerun"
    /\ thesis_text' = current_text
    /\ format_enabled' = (current_text # <<>>)
    /\ viz_enabled' = has_formatted_text(current_text)
    /\ messages' = IF tip_due(current_text, just_formatted) THEN {MsgTip} ELSE {}
    /\ just_formatted' = FALSE
    /\ run_pc' = "idle"
    /\ NoVisualization
    /\ UNCHANGED <<current_text, ss_company_name>>
    /\ UNCHANGED <<nameVars, parseVars, bulletVars>>
    /\ UNCHANGED overlayVars

\* faulty variant: the label is always extracted from the working text
ClickVizFreshLabel ==
    /\ run_pc = "idle"
    /\ viz_enabled
    /\ company_name' = extract_company_name(current_text)
    /\ viz_sections' = parse_thesis_sections(current_text)
    /\ processed_sections' = <<>>
    /\ html_content' = <<>>
    /\ panels' = <<>>
    /\ render_pc' = "loop"
    /\ messages' = {}
    /\ run_pc' = "viz"
    /\ UNCHANGED <<current_text, just_formatted, ss_company_name, thesis_text,
                   format_enabled, viz_enabled>>
    /\ UNCHANGED <<nameVars, parseVars, bulletVars>>
    /\ UNCHANGED overlayVars

\* the user presses "Launch Brain Visualization": the run picks the label, parses
\* the working text and enters create_space_visualization_html
ClickViz ==
    /\ run_pc = "idle"
    /\ viz_enabled
    /\ company_name' = IF ss_company_name # None
                       THEN ss_company_name[2]
                       ELSE extract_company_name(current_text)
    /\ viz_sections' = parse_thesis_sections(current_text)
    /\ processed_sections' = <<>>
    /\ html_content' = <<>>
    /\ panels' = <<>>
    /\ render_pc' = "loop"
    /\ messages' = {}
    /\ run_pc' = "viz"
    /\ UNCHANGED <<current_text, just_formatted, ss_company_name, thesis_text,
                   format_enabled, viz_enabled>>
    /\ UNCHANGED <<nameVars, parseVars, bulletVars>>
    /\ UNCHANGED overlayVars

\* the visualization is on the page and the run reaches the end of the script
VizRunEnds ==
    /\ run_pc = "viz"
    /\ render_pc \in {"rendered", "loaded"}
    /\ messages' = IF tip_due(current_text, just_formatted) THEN {MsgTip} ELSE {}
    /\ just_formatted' = FALSE
    /\ run_pc' = "idle"
    /\ UNCHANGED <<current_text, ss_company_name, thesis_text, format_enabled, viz_enabled>>
    /\ UNCHANGED <<nameVars, parseVars, bulletVars, renderVars>>
    /\ UNCHANGED overlayVars

Next ==
    \/ EditText \/ ClickFormat \/ FormatReturns \/ Rerun \/ ClickViz \/ VizRunEnds
    \/ IssueBulletCall \/ BulletCallReturns \/ RenderDocument \/ LoadDocument

Spec == Init /\ [][Next]_vars

(***************************************************************************)
(* Claims about the session                                                *)
(***************************************************************************)
\* C7: when the segmentation call raises, format_thesis_with_headers returns
\* its input, the run shows the failure, current_text and just_formatted are
\* as they were before, and the run ends without st.rerun().
C7_FailedFormatKeepsState ==
    [][ (run_pc = "formatting" /\ MsgFormatError \in messages') =>
            /\ format_thesis_with_headers(thesis_text, Raised) = thesis_text
            /\ MsgFormatFailed \in messages'
            /\ current_text' = current_text
            /\ just_formatted' = just_formatted
            /\ run_pc' = "idle" ]_vars

\* C7 witness: a run whose segmentation call raised has ended, on a non-empty text.
C7_Witness ==
    /\ run_pc = "idle"
    /\ MsgFormatError \in messages
    /\ MsgFormatFailed \in messages
    /\ current_text # <<>>
    /\ current_text = thesis_text
    /\ ~just_formatted

\* C8: whenever the working text parses into zero sections the visualization
\* button is disabled, so no visualization starts with zero sections.
C8_UnsegmentedDisablesViz ==
    /\ (run_pc = "idle" /\ parse_thesis_sections(current_text) = <<>>) => ~viz_enabled
    /\ run_pc = "viz" => viz_sections # <<>>

\* a segmentation request is outstanding / a bullet request is outstanding
SegmentationOutstanding == run_pc = "formatting"
BulletCallOutstanding == render_pc = "call"

\* the steps of a visualization run never overlap with a segmentation call,
\* work on the complete parse of the working text, and keep section order
PipelineOrdered ==
    /\ SegmentationOutstanding => render_pc = "idle"
    /\ ~(SegmentationOutstanding /\ BulletCallOutstanding)
    /\ render_pc \in {"loop", "call", "rendered", "loaded"} =>
          /\ run_pc \in {"viz", "idle"}
          /\ viz_sections = parse_thesis_sections(current_text)
          /\ Len(processed_sections) <= Len(viz_sections)
          /\ \A i \in 1..Len(processed_sections) :
                processed_sections[i].title = viz_sections[i].title
    /\ BulletCallOutstanding => Len(processed_sections) < Len(viz_sections)
    /\ render_pc \in {"rendered", "loaded"} =>
          Len(processed_sections) = Len(viz_sections)

\* a bullet request is issued only between sections, and whatever its outcome
\* its return adds the entry of exactly one section, the next in order
OneAttemptPerSection ==
    /\ (~BulletCallOutstanding /\ BulletCallOutstanding') =>
          /\ render_pc = "loop"
          /\ processed_sections' = processed_sections
    /\ (BulletCallOutstanding /\ ~BulletCallOutstanding') =>
          /\ render_pc' = "loop"
          /\ Len(processed_sections') = Len(processed_sections) + 1
          /\ SubSeq(processed_sections', 1, Len(processed_sections)) = processed_sections
    /\ (render_pc # "rendered" /\ render_pc' = "rendered") =>
          /\ render_pc = "loop"
          /\ Len(processed_sections) = Len(viz_sections)

\* C15: within one user action the steps never overlap: nothing of the
\* visualization pipeline runs while a segmentation call is outstanding, a
\* bullet call is issued only for the complete parse of the working text,
\* calls are issued one at a time in section order with exactly one attempt
\* per section, at most one completion call is outstanding at any time, and
\* the document is rendered only after the last bullet call returned.
C15_PipelineStepsOrdered ==
    [](PipelineOrdered) /\ [][OneAttemptPerSection]_vars

\* C15 witness: a visualization of a two-section text was rendered after a
\* format, with both sections processed in order.
C15_Witness ==
    /\ run_pc = "viz"
    /\ render_pc = "rendered"
    /\ ss_company_name # None
    /\ Len(viz_sections) = 2
    /\ Len(processed_sections) = 2
    /\ processed_sections[1].title = <<"A">>
    /\ processed_sections[2].title = <<"B">>

\* a step that ends a script run at the end of the script
RunCompletes ==
    run_pc' = "idle" /\ (run_pc # "idle" \/ current_text' # current_text)

\* the flag rises only when a format returned a non-empty text other than its input
FlagRaisedOnlyBySuccessfulFormat ==
    (~just_formatted /\ just_formatted') =>
        /\ run_pc = "formatting"
        /\ run_pc' = "rerun"
        /\ current_text' # <<>>
        /\ current_text' # thesis_text
        /\ MsgFormatted \in messages'

\* the tip of a completed run, and the one kind of run that suppresses it
TipRule ==
    RunCompletes =>
        /\ MsgTip \in messages' <=> (HasColon(current_text') /\ ~just_formatted)
        /\ (HasColon(current_text') /\ MsgTip \notin messages') <=>
              (run_pc = "rerun" /\ HasColon(current_text'))
        /\ ~just_formatted'

\* C16: just_formatted becomes true only by a successful format, is true
\* only from then until the end of the rerun that follows, and is false at
\* the end of every run that completes; a completed run shows the tip exactly
\* when the working text contains a colon and the flag is false at that
\* point, which fails for a text with a colon exactly in the rerun after a
\* successful format.
C16_FlagAndTip ==
    /\ [](just_formatted => run_pc = "rerun")
    /\ [](run_pc = "idle" => ~just_formatted)
    /\ [][FlagRaisedOnlyBySuccessfulFormat /\ TipRule]_vars

\* C16 witness: the rerun after a successful format has ended on a text with
\* a colon, without the tip.
C16_Witness ==
    /\ run_pc = "idle"
    /\ ~just_formatted
    /\ HasColon(current_text)
    /\ ss_company_name # None
    /\ messages = {}

\* the steps that start a format run and a visualization run
FormatTriggered == run_pc = "idle" /\ run_pc' = "formatting"
VisualizationStarts == run_pc = "idle" /\ run_pc' = "viz"

\* the stored label is written by every format trigger, from the text in the
\* text area at that moment, and by nothing else
StoredLabelFollowsFormat ==
    /\ FormatTriggered => ss_company_name' = Str(extract_company_name(thesis_text))
    /\ ss_company_name' # ss_company_name => FormatTriggered

\* a visualization takes the stored label when there is one
LabelOfVisualization ==
    VisualizationStarts =>
        company_name' = IF ss_company_name = None
                        THEN extract_company_name(current_text)
                        ELSE ss_company_name[2]

\* C17: once format has been triggered in a session, whatever its outcome,
\* every later visualization carries the label extracted from the text as it
\* was at the most recent format trigger, whatever the working text has
\* become; only a session without any format trigger extracts the label from
\* the working text.
C17_StoredLabelWins ==
    [][StoredLabelFollowsFormat /\ LabelOfVisualization]_vars

\* C17 witness: a visualization runs with the label of the text that was
\* formatted, which is not the label of the working text.
C17_Witness ==
    /\ run_pc = "viz"
    /\ ss_company_name # None
    /\ company_name = ss_company_name[2]
    /\ company_name # extract_company_name(current_text)

====
